---- MODULE Spec2Model ----
(***************************************************************************)
(* Model of framework/utils/xmlUtils.py (fixXmlText, fixXmlTag, newNode,   *)
(* newTree, findPath, prettify) and of the base class in                   *)
(* framework/OutStreams/OutStreamEntity.py.                                *)
(*                                                                         *)
(* Strings are sequences of one-character strings.  Characters that have   *)
(* no printable form are written as tokens ("<U+0001>", "<U+D800>", ...).  *)
(* Python's None, non-string values and raised exceptions are one-element  *)
(* sequences holding a token no character equals, so that every value of   *)
(* a variable is a sequence and can be compared with every other one.      *)
(***************************************************************************)
EXTENDS Integers, Sequences, FiniteSets, TLC

VARIABLES call, ret, root, path, found, examined, input, tree, passes,
          firstTree, firstOut, out, entity, returned, params, log

vars == <<call, ret, root, path, found, examined, input, tree, passes,
          firstTree, firstOut, out, entity, returned, params, log>>

xmlVars == <<call, ret>>
findVars == <<root, path, found, examined>>
prettyVars == <<input, tree, passes, firstTree, firstOut, out>>
outVars == <<entity, returned, params, log>>

(***************************************************************************)
(* Bounds of the model.                                                    *)
(***************************************************************************)
MaxLen == 3
MaxTextLen == 3
MaxAttrs == 1
MaxNodes == 5
MaxPathLen == 3
MaxPrettyNodes == 4
MaxCalls == 4

(***************************************************************************)
(* Values.                                                                 *)
(***************************************************************************)
None == <<"<None>">>
IndexError == <<"<IndexError>">>
IntThree == <<"<int>", "3">>

NL == "\n"
CTL == "<U+0001>"
FFFE == "<U+FFFE>"
HS == "<U+D800>"
LS == "<U+DC00>"

Letters == {"a", "x", "X", "m", "M", "l", "L"}
Digits == {"1"}
TagChars == Letters \cup Digits \cup {"-", "_", "."}
TagAlphabet == {"a", "x", "X", "m", "l", "1", "-", "_", ".", " ", NL}
TextAlphabet == {"a", NL, CTL, FFFE, HS, LS}

StrsOver(alphabet, n) == UNION {[1..k -> alphabet] : k \in 0..n}

(***************************************************************************)
(* Tree shapes.  A tree of n nodes is drawn as the sequence of the depths  *)
(* of its nodes in document order: the root has depth 0 and a node is at   *)
(* most one level deeper than the node before it.                          *)
(***************************************************************************)
Shapes(n) ==
  {d \in [1..n -> 0..(n - 1)] :
     d[1] = 0 /\ \A i \in 2..n : d[i] >= 1 /\ d[i] <= d[i-1] + 1}

\* the direct children of node i, in document order
ChildrenOf(d, i) ==
  LET ch == {j \in (i + 1)..Len(d) : d[j] = d[i] + 1 /\ \A k \in (i + 1)..j : d[k] > d[i]}
      nth[k \in 1..Cardinality(ch)] ==
        CHOOSE j \in ch : Cardinality({m \in ch : m < j}) = k - 1
  IN [k \in 1..Cardinality(ch) |-> nth[k]]

\* isinstance(msg, basestring)
IsString(msg) == msg = <<>> \/ Head(msg) \notin {"<None>", "<int>", "<IndexError>"}

\* str(x)
Str(x) ==
  IF IsString(x) THEN x
  ELSE IF x = None THEN <<"N", "o", "n", "e">>
  ELSE Tail(x)

(***************************************************************************)
(* fixXmlText: re.sub(RE_XML_ILLEGAL, "?", msg).  The five alternatives    *)
(* are tried in order at each position, the leftmost match is replaced and *)
(* the scan resumes after it.                                              *)
(***************************************************************************)
IllegalControl == {CTL, FFFE}

\* length of the match of RE_XML_ILLEGAL starting at position i, 0 if none
MatchIllegal(msg, i) ==
  LET n == Len(msg) IN
  IF msg[i] \in IllegalControl THEN 1
  ELSE IF msg[i] = HS /\ i < n /\ msg[i+1] # LS THEN 2
  ELSE IF msg[i] # HS /\ i < n /\ msg[i+1] = LS THEN 2
  ELSE IF msg[i] = HS /\ (i = n \/ (i + 1 = n /\ msg[n] = NL)) THEN 1
  ELSE IF msg[i] = LS /\ i = 1 THEN 1
  ELSE 0

RECURSIVE SubIllegal(_, _)
SubIllegal(msg, i) ==
  IF i > Len(msg) THEN <<>>
  ELSE LET k == MatchIllegal(msg, i) IN
       IF k = 0 THEN <<msg[i]>> \o SubIllegal(msg, i + 1)
       ELSE <<"?">> \o SubIllegal(msg, i + k)

fixXmlText(msg) ==
  IF ~IsString(msg) THEN msg
  ELSE SubIllegal(msg, 1)

(***************************************************************************)
(* fixXmlTag.                                                              *)
(***************************************************************************)
\* re.match('(^[a-zA-Z0-9-_.]+$)', msg): '$' matches at the end of the string
\* and also just before a newline that ends the string
MatchAllTagChars(msg) ==
  \E n \in 1..Len(msg) :
    /\ \A i \in 1..n : msg[i] \in TagChars
    /\ \/ n = Len(msg)
       \/ n = Len(msg) - 1 /\ msg[Len(msg)] = NL

\* re.sub('([^a-zA-Z0-9-_.])', '.', msg)
SubNotTagChars(msg) ==
  [i \in 1..Len(msg) |-> IF msg[i] \in TagChars THEN msg[i] ELSE "."]

\* re.match(letters + '|([_])', c)
MatchLetterOrUnderscore(c) == c \in Letters \cup {"_"}

\* re.match('([xX][mM][lL])', msg[:3])
MatchXml(msg) ==
  /\ Len(msg) >= 3
  /\ msg[1] \in {"x", "X"}
  /\ msg[2] \in {"m", "M"}
  /\ msg[3] \in {"l", "L"}

fixXmlTag(msg) ==
  IF ~IsString(msg) THEN msg
  ELSE LET fixed == IF ~MatchAllTagChars(msg) THEN SubNotTagChars(msg) ELSE msg IN
       IF fixed = <<>> THEN IndexError
       ELSE IF ~MatchLetterOrUnderscore(fixed[1]) \/ MatchXml(fixed)
            THEN <<"_">> \o fixed
            ELSE fixed

(***************************************************************************)
(* newNode, newTree.  A node is [tag, text, attrib]; attrib is the         *)
(* sequence of <<key, value>> pairs of the dictionary in iteration order.  *)
(***************************************************************************)
Raised(v) == v = IndexError

\* cleanAttrib[key] = value: a later pair replaces an earlier one with the key
PutAttr(d, k, v) == SelectSeq(d, LAMBDA p : p[1] # k) \o <<<<k, v>>>>

RECURSIVE CleanAttrib(_, _)
CleanAttrib(attrib, acc) ==
  IF attrib = <<>> THEN acc
  ELSE CleanAttrib(Tail(attrib),
                   PutAttr(acc, fixXmlTag(attrib[1][1]), fixXmlText(Str(attrib[1][2]))))

newNode(tag, text, attrib) ==
  IF Raised(fixXmlTag(tag)) THEN IndexError
  ELSE IF \E i \in DOMAIN attrib : Raised(fixXmlTag(attrib[i][1])) THEN IndexError
  ELSE <<fixXmlTag(tag), fixXmlText(Str(text)), CleanAttrib(attrib, <<>>)>>

newTree(name, attrib) ==
  LET n == fixXmlTag(name) IN
  IF Raised(n) THEN IndexError
  ELSE LET el == newNode(n, <<>>, <<>>) IN
       IF Raised(el) THEN IndexError
       ELSE <<el[1], el[2], attrib>>

(***************************************************************************)
(* findPath.  A tree node is [tag, kids]; a node of the tree is named by   *)
(* its position, the sequence of child indices that leads to it from the   *)
(* root (<<>> is the root).  NotFound is the None that find returns.       *)
(***************************************************************************)
NotFound == <<0>>

FindTags == {<<"a">>, <<"b">>}

\* the tree of shape d whose node i has the tag tags[i]
RECURSIVE FindTree(_, _, _)
FindTree(d, tags, i) ==
  LET ch == ChildrenOf(d, i) IN
  [tag |-> tags[i], kids |-> [k \in DOMAIN ch |-> FindTree(d, tags, ch[k])]]

RECURSIVE NodeAt(_, _)
NodeAt(t, pos) == IF pos = <<>> THEN t ELSE NodeAt(t.kids[Head(pos)], Tail(pos))

\* path.split("|")
RECURSIVE Split(_)
Split(s) ==
  IF \A i \in DOMAIN s : s[i] # "|" THEN <<s>>
  ELSE LET i == CHOOSE j \in DOMAIN s : s[j] = "|" /\ \A k \in 1..(j - 1) : s[k] # "|"
       IN <<SubSeq(s, 1, i - 1)>> \o Split(SubSeq(s, i + 1, Len(s)))

\* '|'.join(parts)
RECURSIVE Join(_)
Join(parts) ==
  IF parts = <<>> THEN <<>>
  ELSE IF Len(parts) = 1 THEN parts[1]
  ELSE parts[1] \o <<"|">> \o Join(Tail(parts))

\* Element.find(tag) on the node at pos: the first direct child with the tag
findSkipFirst(t, pos, tag) ==
  LET kids == NodeAt(t, pos).kids
      hits == {i \in DOMAIN kids : i > 1 /\ kids[i].tag = tag} IN
  IF hits = {} THEN NotFound
  ELSE pos \o <<CHOOSE i \in hits : \A j \in hits : i <= j>>

findLast(t, pos, tag) ==
  LET kids == NodeAt(t, pos).kids
      hits == {i \in DOMAIN kids : kids[i].tag = tag} IN
  IF hits = {} THEN NotFound
  ELSE pos \o <<CHOOSE i \in hits : \A j \in hits : i >= j>>

find(t, pos, tag) ==
  LET kids == NodeAt(t, pos).kids
      hits == {i \in DOMAIN kids : kids[i].tag = tag} IN
  IF hits = {} THEN NotFound
  ELSE pos \o <<CHOOSE i \in hits : \A j \in hits : i <= j>>

\* findPath(root, path); .node is the result, .finds the tags handed to find
RECURSIVE findPath(_, _)
findPath(r, p) ==
  LET parts == Split(p)
      last == parts[Len(parts)] IN
  IF Len(parts) > 1
  THEN LET oneUp == findPath(r, Join(SubSeq(parts, 1, Len(parts) - 1))) IN
       IF oneUp.node # NotFound
       THEN [node |-> find(r, oneUp.node, last), finds |-> Append(oneUp.finds, last)]
       ELSE [node |-> NotFound, finds |-> oneUp.finds]
  ELSE [node |-> find(r, <<>>, last), finds |-> <<last>>]

(***************************************************************************)
(* prettify.  A node is [tag, text, tail, kids]; the tag of a comment node *)
(* is the Comment factory function.  os.linesep is the one character NL.   *)
(***************************************************************************)
Comment == "<function Comment>"
Whitespace == {" ", NL}

PrettyTexts == {None, <<" ", "t", " ">>}
PrettyTails == {None, <<" ", "t", NL, NL, NL, "t", " ">>}

\* what a node carries: an element, or a comment with its text
PrettyContents ==
  {<<"e", x, y>> : x \in PrettyTexts, y \in PrettyTails}
  \cup {<<Comment, <<" ", "t", " ">>, y>> : y \in PrettyTails}

\* the tree of shape d whose node i carries c[i]
RECURSIVE PrettyTree(_, _, _)
PrettyTree(d, c, i) ==
  LET ch == ChildrenOf(d, i) IN
  [tag |-> c[i][1], text |-> c[i][2], tail |-> c[i][3],
   kids |-> [k \in DOMAIN ch |-> PrettyTree(d, c, ch[k])]]

isComment(node) == node.tag = Comment

\* s.strip()
RECURSIVE LStrip(_)
LStrip(s) == IF s # <<>> /\ Head(s) \in Whitespace THEN LStrip(Tail(s)) ELSE s
RECURSIVE RStrip(_)
RStrip(s) ==
  IF s # <<>> /\ s[Len(s)] \in Whitespace THEN RStrip(SubSeq(s, 1, Len(s) - 1)) ELSE s
StripLeftOnly(s) == LStrip(s)

Strip(s) == RStrip(LStrip(s))

\* ' '*n
Spaces(n) == [i \in 1..n |-> " "]

\* s[:-2]
DropLastOne(s) == SubSeq(s, 1, Len(s) - 1)

DropLastTwo(s) == SubSeq(s, 1, Len(s) - 2)

\* s.replace(os.linesep+os.linesep, os.linesep)
RECURSIVE ReplaceDoubleLinesep(_)
ReplaceDoubleLinesep(s) ==
  IF s = <<>> THEN <<>>
  ELSE IF Len(s) >= 2 /\ s[1] = NL /\ s[2] = NL
       THEN <<NL>> \o ReplaceDoubleLinesep(SubSeq(s, 3, Len(s)))
       ELSE <<s[1]>> \o ReplaceDoubleLinesep(Tail(s))

\* the line separators appended to the tail of a node at level tabs
LinesIgnoreComment(node, tabs) ==
  IF tabs = 1 THEN <<NL, NL>> ELSE <<NL>>

Lines(node, tabs) ==
  IF tabs = 1 /\ ~isComment(node) THEN <<NL, NL>> ELSE <<NL>>

RECURSIVE prettifyNode(_, _)
prettifyNode(node, tabs) ==
  LET n == Len(node.kids)
      space == Spaces(2 * tabs)
      text0 == IF node.text = None THEN <<>> ELSE node.text
      text1 == IF n > 0 THEN Strip(text0) \o <<NL>> \o space \o <<" ", " ">> ELSE text0
      kids1 == [i \in 1..n |-> prettifyNode(node.kids[i], tabs + 1)]
      kids2 == IF n > 0 THEN [kids1 EXCEPT ![n].tail = DropLastTwo(@)] ELSE kids1
      tail0 == IF node.tail = None THEN <<>> ELSE Strip(node.tail)
      tail1 == tail0 \o Lines(node, tabs) \o space
      kids3 == IF tabs = 0 /\ n > 0
               THEN [kids2 EXCEPT ![n].tail = ReplaceDoubleLinesep(@)]
               ELSE kids2
  IN [tag |-> node.tag, text |-> text1, tail |-> tail1, kids |-> kids3]

\* ET.tostring(node)
RECURSIVE tostring(_)
RECURSIVE tostringAll(_)
tostring(node) ==
  LET text == IF node.text = None THEN <<>> ELSE node.text
      tail == IF node.tail = None THEN <<>> ELSE node.tail IN
  IF isComment(node) THEN <<"<!--">> \o text \o <<"-->">> \o tail
  ELSE IF text = <<>> /\ node.kids = <<>> THEN <<"<e />">> \o tail
  ELSE <<"<e>">> \o text \o tostringAll(node.kids) \o <<"</e>">> \o tail
tostringAll(kids) ==
  IF kids = <<>> THEN <<>> ELSE tostring(Head(kids)) \o tostringAll(Tail(kids))

(***************************************************************************)
(* OutStreamEntity.  entity holds the instance attributes; returned is the *)
(* heap of the dictionaries handed out by getInitParams, each one the set  *)
(* of its keys, which the caller may change; params is the index of the    *)
(* dictionary the last getInitParams call returned.                        *)
(***************************************************************************)
BaseEntityState == "BaseEntity.__init__"
StepEntities == {<<>>, <<"DataObjects">>, <<"DataObjects", "Models">>}
CallerKeys == {"k"}

\* __init__
NewOutStreamEntity ==
  [base |-> BaseEntityState, printTag |-> "OutStreamManager", type |-> "Base"]

\* initialize(self, stepEntities): pass
initialize(self, stepEntities) == self

\* addOutput(self): pass
addOutput(self) == self

\* getInitParams(self): a new empty dictionary on the heap, and its index
getInitParamsShared(self, heap) ==
  IF heap = <<>> THEN [heap |-> <<{}>>, ref |-> 1] ELSE [heap |-> heap, ref |-> 1]

getInitParams(self, heap) == [heap |-> Append(heap, {}), ref |-> Len(heap) + 1]

(***************************************************************************)
(* Inputs of the calls.                                                    *)
(***************************************************************************)
TagInputs == StrsOver(TagAlphabet, MaxLen)
TextInputs == StrsOver(TextAlphabet, MaxTextLen) \cup {None, IntThree}
NodeTexts == {<<"t">>, <<"t", CTL>>, IntThree}
AttrKeys == {<<>>, <<"a">>, <<"1", " ">>, <<"a", NL>>}
AttrValues == {<<"v">>, IntThree}
\* dictionaries of at most MaxAttrs items, their keys distinct
Attribs ==
  {d \in UNION {[1..k -> AttrKeys \X AttrValues] : k \in 0..MaxAttrs} :
     \A i, j \in DOMAIN d : i # j => d[i][1] # d[j][1]}
FindPaths == UNION {[1..k -> FindTags] : k \in 1..MaxPathLen}

(***************************************************************************)
(* The sanitizers and constructors: a run makes one call.                  *)
(***************************************************************************)
XmlIdle == call = <<"none">> /\ ret = None
FindIdle == root = <<>> /\ path = <<>> /\ found = NotFound /\ examined = <<>>
PrettyIdle ==
  /\ input = <<>> /\ tree = <<>> /\ passes = 0
  /\ firstTree = <<>> /\ firstOut = <<>> /\ out = <<>>
OutIdle == entity = <<>> /\ returned = <<>> /\ params = 0 /\ log = <<>>

InitXml == XmlIdle /\ FindIdle /\ PrettyIdle /\ OutIdle

CallFixXmlText ==
  /\ call = <<"none">>
  /\ \E msg \in TextInputs :
       /\ call' = <<"fixXmlText", msg>>
       /\ ret' = fixXmlText(msg)
       /\ UNCHANGED <<findVars, prettyVars, outVars>>

CallFixXmlTag ==
  /\ call = <<"none">>
  /\ \E msg \in TagInputs :
       /\ call' = <<"fixXmlTag", msg>>
       /\ ret' = fixXmlTag(msg)
       /\ UNCHANGED <<findVars, prettyVars, outVars>>

CallNewNode ==
  /\ call = <<"none">>
  /\ \E tag \in TagInputs, text \in NodeTexts, attrib \in Attribs :
       /\ call' = <<"newNode", tag, text, attrib>>
       /\ ret' = newNode(tag, text, attrib)
       /\ UNCHANGED <<findVars, prettyVars, outVars>>

CallNewTree ==
  /\ call = <<"none">>
  /\ \E name \in TagInputs, attrib \in Attribs :
       /\ call' = <<"newTree", name, attrib>>
       /\ ret' = newTree(name, attrib)
       /\ UNCHANGED <<findVars, prettyVars, outVars>>

NextXml == CallFixXmlText \/ CallFixXmlTag \/ CallNewNode \/ CallNewTree

SpecXml == InitXml /\ [][NextXml]_vars

(***************************************************************************)
(* findPath on a tree: a run makes one call.                               *)
(***************************************************************************)
InitFind ==
  /\ \E n \in 1..MaxNodes : \E d \in Shapes(n) : \E tags \in [1..n -> FindTags] :
       root = FindTree(d, tags, 1)
  /\ path = <<>> /\ found = NotFound /\ examined = <<>>
  /\ XmlIdle /\ PrettyIdle /\ OutIdle

CallFindPath ==
  /\ path = <<>>
  /\ \E segs \in FindPaths :
       LET r == findPath(root, Join(segs)) IN
       /\ path' = Join(segs)
       /\ found' = r.node
       /\ examined' = r.finds
  /\ UNCHANGED <<root, xmlVars, prettyVars, outVars>>

NextFind == CallFindPath

SpecFind == InitFind /\ [][NextFind]_vars

(***************************************************************************)
(* prettify, called again and again on the same tree.  An ElementTree and  *)
(* its root element take the same way through prettifyNode and tostring.   *)
(* passes is 0 before the first call, 1 after it and 2 after every later   *)
(* call; firstTree and firstOut keep the tree and the text of the first.   *)
(***************************************************************************)
\* the root is an element and a comment has no children
InitPretty ==
  /\ \E n \in 1..MaxPrettyNodes : \E d \in Shapes(n) : \E c \in [1..n -> PrettyContents] :
       /\ c[1][1] # Comment
       /\ \A i \in 1..n : c[i][1] = Comment => ChildrenOf(d, i) = <<>>
       /\ input = PrettyTree(d, c, 1)
       /\ tree = PrettyTree(d, c, 1)
  /\ passes = 0
  /\ firstTree = <<>> /\ firstOut = <<>> /\ out = <<>>
  /\ XmlIdle /\ FindIdle /\ OutIdle

Prettify ==
  /\ LET t == prettifyNode(tree, 0) IN
     /\ tree' = t
     /\ out' = tostring(t)
     /\ firstTree' = IF passes = 0 THEN t ELSE firstTree
     /\ firstOut' = IF passes = 0 THEN tostring(t) ELSE firstOut
  /\ passes' = IF passes = 0 THEN 1 ELSE 2
  /\ UNCHANGED <<input, xmlVars, findVars, outVars>>

NextPretty == Prettify

SpecPretty == InitPretty /\ [][NextPretty]_vars

(***************************************************************************)
(* A base OutStreamEntity and its caller.                                  *)
(***************************************************************************)
InitOut ==
  /\ entity = NewOutStreamEntity
  /\ returned = <<>> /\ params = 0 /\ log = <<>>
  /\ XmlIdle /\ FindIdle /\ PrettyIdle

Initialize ==
  /\ Len(log) < MaxCalls
  /\ \E stepEntities \in StepEntities :
       /\ entity' = initialize(entity, stepEntities)
       /\ log' = Append(log, <<"initialize", stepEntities>>)
  /\ UNCHANGED <<returned, params, xmlVars, findVars, prettyVars>>

AddOutput ==
  /\ Len(log) < MaxCalls
  /\ entity' = addOutput(entity)
  /\ log' = Append(log, <<"addOutput">>)
  /\ UNCHANGED <<returned, params, xmlVars, findVars, prettyVars>>

GetInitParams ==
  /\ Len(log) < MaxCalls
  /\ LET r == getInitParams(entity, returned) IN
     /\ returned' = r.heap
     /\ params' = r.ref
  /\ log' = Append(log, <<"getInitParams">>)
  /\ UNCHANGED <<entity, xmlVars, findVars, prettyVars>>

\* the caller adds a key to a dictionary it was given
CallerMutates ==
  /\ Len(log) < MaxCalls
  /\ \E i \in DOMAIN returned, k \in CallerKeys :
       returned' = [returned EXCEPT ![i] = @ \cup {k}]
  /\ log' = Append(log, <<"mutate">>)
  /\ UNCHANGED <<entity, params, xmlVars, findVars, prettyVars>>

NextOut == Initialize \/ AddOutput \/ GetInitParams \/ CallerMutates

SpecOut == InitOut /\ [][NextOut]_vars

(***************************************************************************)
(* Properties of the sanitizers and constructors (SpecXml).                *)
(***************************************************************************)
BeginsWithXml(s) ==
  Len(s) >= 3 /\ s[1] \in {"x", "X"} /\ s[2] \in {"m", "M"} /\ s[3] \in {"l", "L"}

\* a legal tag or attribute name
LegalName(s) ==
  /\ s # <<>>
  /\ \A i \in DOMAIN s : s[i] \in Letters \cup Digits \cup {"-", "_", "."}
  /\ s[1] \in Letters \cup {"_"}
  /\ ~BeginsWithXml(s)

\* no character that XML 1.0 text forbids, no surrogate without its partner
LegalText(s) ==
  \A i \in DOMAIN s :
    /\ s[i] \notin {CTL, FFFE}
    /\ s[i] = HS => (i < Len(s) /\ s[i+1] = LS)
    /\ s[i] = LS => (i > 1 /\ s[i-1] = HS)

\* C1: for every non-empty string s, fixXmlTag(s) has only letters, digits,
\* hyphens, underscores and periods, starts with a letter or an underscore and
\* does not begin with "xml" in any letter case.
C1_FixXmlTagIsLegal ==
  (call[1] = "fixXmlTag" /\ call[2] # <<>>) => (~Raised(ret) /\ LegalName(ret))

\* C2: fixXmlTag and fixXmlText return without raising for every string, the
\* empty one included, and newNode returns a node without raising for every
\* string tag, text and attribute keys, an empty tag or key included.
C2_SanitizationNeverRaises ==
  call[1] \in {"fixXmlTag", "fixXmlText", "newNode"} => ~Raised(ret)

\* C5: the tag and the attribute keys of every node returned by newNode, and of
\* the root of every tree returned by newTree, are legal names.
C5_NodeNamesAreLegal ==
  (call[1] \in {"newNode", "newTree"} /\ ~Raised(ret)) =>
    /\ LegalName(ret[1])
    /\ \A i \in DOMAIN ret[3] : LegalName(ret[3][i][1])

\* C8: for every string s, fixXmlText(s) has no control character that XML 1.0
\* forbids, no U+FFFE or U+FFFF and no unpaired surrogate; every input that is
\* not a string is returned unchanged.
C8_FixXmlTextIsLegal ==
  call[1] = "fixXmlText" =>
    IF IsString(call[2]) THEN LegalText(ret) ELSE ret = call[2]

(***************************************************************************)
(* Properties of findPath (SpecFind).                                      *)
(***************************************************************************)
\* a chain of direct children below node whose tags are segs exists
RECURSIVE ChainExists(_, _)
ChainExists(node, segs) ==
  \/ segs = <<>>
  \/ \E i \in DOMAIN node.kids :
       node.kids[i].tag = Head(segs) /\ ChainExists(node.kids[i], Tail(segs))

\* pos ends a chain of direct children of the root whose tags are segs
EndsChain(r, pos, segs) ==
  /\ pos # NotFound
  /\ Len(pos) = Len(segs)
  /\ \A k \in 1..Len(pos) : NodeAt(r, SubSeq(pos, 1, k)).tag = segs[k]

RECURSIVE SiblingTagsDiffer(_)
SiblingTagsDiffer(node) ==
  /\ \A i, j \in DOMAIN node.kids : i # j => node.kids[i].tag # node.kids[j].tag
  /\ \A i \in DOMAIN node.kids : SiblingTagsDiffer(node.kids[i])

\* the segments of the path of the call
Segments == Split(path)

\* C3 as stated: whenever a chain root, c1, ..., cn of direct children with the
\* tags p1, ..., pn exists, findPath returns the end of such a chain, never
\* None, also when siblings share a tag.
C3_PresentPathIsFound ==
  (path # <<>> /\ ChainExists(root, Segments)) => EndsChain(root, found, Segments)

\* C3 as amended: whenever such a chain exists in a tree where no two siblings
\* share a tag, findPath returns the end of the chain, never None.
C3_PresentPathIsFoundAmongDistinctSiblings ==
  (path # <<>> /\ SiblingTagsDiffer(root) /\ ChainExists(root, Segments))
    => EndsChain(root, found, Segments)

C3_Witness ==
  /\ path # <<>> /\ SiblingTagsDiffer(root) /\ ChainExists(root, Segments)
  /\ Len(Segments) >= 2
  /\ Len(root.kids) >= 2
  /\ found[1] = 2

\* the iteration from the root: at each segment the first direct child, in
\* document order, that has the tag; it stops at the first segment without one
RECURSIVE Iterate(_, _, _, _)
Iterate(node, pos, segs, seen) ==
  IF segs = <<>> THEN [node |-> pos, finds |-> seen]
  ELSE LET hits == {i \in DOMAIN node.kids : node.kids[i].tag = Head(segs)} IN
       IF hits = {} THEN [node |-> NotFound, finds |-> Append(seen, Head(segs))]
       ELSE LET first == CHOOSE i \in hits : \A j \in hits : i <= j IN
            Iterate(node.kids[first], Append(pos, first), Tail(segs),
                    Append(seen, Head(segs)))

\* C4: findPath(root, 'p1|...|pn') is the result of the iteration n0 = root,
\* n(i) = the first direct child of n(i-1) with tag pi; it is None as soon as a
\* step finds no child, and no later segment is then looked up; the tag of the
\* root is matched against no segment.
C4_FindPathIsFirstMatchIteration ==
  path # <<>> =>
    /\ found = Iterate(root, <<>>, Segments, <<>>).node
    /\ examined = Iterate(root, <<>>, Segments, <<>>).finds

C4_Witness ==
  /\ path # <<>>
  /\ Len(Segments) = 3
  /\ found = NotFound
  /\ Len(examined) = 1
  /\ root.tag = Segments[1]
  /\ ChainExists(root, Tail(Segments))

(***************************************************************************)
(* Properties of prettify (SpecPretty).                                    *)
(***************************************************************************)
RECURSIVE Positions(_)
Positions(node) ==
  {<<>>} \cup UNION {{<<i>> \o p : p \in Positions(node.kids[i])} : i \in DOMAIN node.kids}

\* the line separators in the whitespace that ends s
RECURSIVE TrailingLineseps(_)
TrailingLineseps(s) ==
  IF s = <<>> \/ s[Len(s)] \notin {" ", NL} THEN 0
  ELSE (IF s[Len(s)] = NL THEN 1 ELSE 0) + TrailingLineseps(SubSeq(s, 1, Len(s) - 1))

\* s ends with a line separator followed by exactly n spaces
EndsWithIndent(s, n) ==
  /\ Len(s) >= n + 1
  /\ s[Len(s) - n] = NL
  /\ \A i \in (Len(s) - n + 1)..Len(s) : s[i] = " "

\* nodes at depth 2 or deeper are followed by no blank line
NoBlankLineBelowTopLevel ==
  \A pos \in Positions(tree) :
    Len(pos) >= 2 => TrailingLineseps(NodeAt(tree, pos).tail) = 1

\* C6 as stated: after prettify, the tail of a direct child of the root ends
\* with two line separators (one blank line), except that the child before a
\* comment and the last child end with one; deeper nodes end with one.
C6_BlankLineExceptBeforeComment ==
  passes >= 1 =>
    /\ \A i \in DOMAIN tree.kids :
         TrailingLineseps(tree.kids[i].tail) =
           IF i < Len(tree.kids) /\ ~isComment(tree.kids[i + 1]) THEN 2 ELSE 1
    /\ NoBlankLineBelowTopLevel

\* C6 as amended: after prettify, the tail of a direct child of the root ends
\* with two line separators (one blank line), except that a comment node and
\* the last child end with one: no blank line is put after a comment or after
\* the last child; deeper nodes end with one.
C6_BlankLineExceptAfterComment ==
  passes >= 1 =>
    /\ \A i \in DOMAIN tree.kids :
         TrailingLineseps(tree.kids[i].tail) =
           IF i < Len(tree.kids) /\ ~isComment(tree.kids[i]) THEN 2 ELSE 1
    /\ NoBlankLineBelowTopLevel

C6_Witness ==
  /\ passes >= 1
  /\ Len(tree.kids) = 3
  /\ ~isComment(tree.kids[1]) /\ isComment(tree.kids[2]) /\ ~isComment(tree.kids[3])
  /\ TrailingLineseps(tree.kids[1].tail) = 2
  /\ TrailingLineseps(tree.kids[2].tail) = 1

\* C7: after prettify, the text of every node at depth d that has children
\* ends with a line separator and 2*(d+1) spaces, the tail of each of its
\* children but the last ends with a line separator and 2*(d+1) spaces, and
\* the tail of its last child ends with a line separator and 2*d spaces.
C7_TwoSpacesPerLevel ==
  passes >= 1 =>
    \A pos \in Positions(tree) :
      LET node == NodeAt(tree, pos)
          d == Len(pos)
          n == Len(node.kids) IN
      n > 0 =>
        /\ EndsWithIndent(node.text, 2 * (d + 1))
        /\ \A i \in 1..(n - 1) : EndsWithIndent(node.kids[i].tail, 2 * (d + 1))
        /\ EndsWithIndent(node.kids[n].tail, 2 * d)

C7_Witness ==
  /\ passes >= 1
  /\ \E pos \in Positions(tree) :
       /\ Len(pos) = 1
       /\ Len(NodeAt(tree, pos).kids) = 2
       /\ NodeAt(tree, pos).kids[1].tail = <<"t", NL, NL, NL, "t", NL, " ", " ", " ", " ">>

\* prettify changes no tag and neither the number nor the order of children
RECURSIVE SameShape(_, _)
SameShape(a, b) ==
  /\ a.tag = b.tag
  /\ Len(a.kids) = Len(b.kids)
  /\ \A i \in DOMAIN a.kids : SameShape(a.kids[i], b.kids[i])

\* s has three line separators in a row between characters that are not
\* whitespace
HasTripleLinesep(s) ==
  \E i \in 1..(Len(Strip(s)) - 2) :
    Strip(s)[i] = NL /\ Strip(s)[i + 1] = NL /\ Strip(s)[i + 2] = NL

\* the tail of the last child of the root has such a run
LastChildTailHasTripleLinesep(t) ==
  /\ t.kids # <<>>
  /\ t.kids[Len(t.kids)].tail # None
  /\ HasTripleLinesep(t.kids[Len(t.kids)].tail)

LastCall == log[Len(log)]

\* C9: a base OutStreamEntity has type 'Base' and printTag 'OutStreamManager'
\* after construction; initialize, addOutput and getInitParams, in any order,
\* change neither these nor any other instance state; every getInitParams call
\* returns an empty mapping, also after the caller changed an earlier one.
C9_BaseEntityIsInert ==
  /\ entity.type = "Base"
  /\ entity.printTag = "OutStreamManager"
  /\ entity = NewOutStreamEntity
  /\ (log # <<>> /\ LastCall = <<"getInitParams">>) => returned[params] = {}

C9_Witness ==
  /\ Len(log) >= 4
  /\ LastCall = <<"getInitParams">>
  /\ \E i \in 1..(params - 1) : returned[i] # {}
  /\ \E i \in DOMAIN log : log[i] = <<"addOutput">>

====
